---- MODULE Spec2Model ----
(***************************************************************************)
(* Model of the tempfile library (include/tempfile/tempfile.hpp,           *)
(* src/tempfile.cpp): temporary directory handles, their creation retry    *)
(* loop, their removal and their destructors, and the file handles, run by *)
(* one thread per handle under the process-wide mutex, next to other       *)
(* processes that change the same filesystem.                              *)
(*                                                                         *)
(* The model follows the _WIN32 branch of tempfile.cpp.  The other branch  *)
(* of paths_to_try (lines 157-160) names `path`, which is not in scope     *)
(* there, so that branch is not a program a build can produce.             *)
(***************************************************************************)
EXTENDS Integers, Sequences, FiniteSets, TLC

VARIABLES
    env,          \* the process environment: variable -> <<>> (unset) or <<value>>
    roots,        \* the base directories that exist and can be written to
    dirs,         \* the temporary directories that exist, by path
    entries,      \* <<directory path, entry>>: what lies directly inside them
    mutex,        \* 0, or the handle whose thread holds the process-wide mutex
    terminated,   \* std::terminate was called
    pc,           \* per handle: where its thread stands
    ctx,          \* per handle: what called the running create() or remove()
    kind,         \* per handle: "directory" or "scoped_directory"
    _good,        \* directory::_good
    _prefix,      \* directory::_prefix
    _path,        \* directory::_path ("" is the empty path)
    ipath,        \* create(): index of `path` in `paths`
    itry,         \* create(): the loop counter
    path_to_try,  \* create(): the local of that name
    removed,      \* remove(): the number of files its loop has removed
    last,         \* per handle: the call that returned last, and what it returned
    madeBy        \* <<path, handle>>: the existing directories a handle's create() made

vars == <<env, roots, dirs, entries, mutex, terminated, pc, ctx, kind,
          _good, _prefix, _path, ipath, itry, path_to_try, removed, last, madeBy>>

hvars == <<pc, ctx, kind, _good, _prefix, _path, ipath, itry, path_to_try, removed, last>>

(***************************************************************************)
(* Bounds of the model.                                                    *)
(***************************************************************************)
\* the number of handles, each used by a thread of its own
NumHandles == 2

\* the number of attempts create() makes per base path: `itry < 100` in
\* tempfile.cpp:209, scaled down to keep the state space finite and small
MaxTries == 2

Handles == 1..NumHandles

(***************************************************************************)
(* Program constants.                                                      *)
(***************************************************************************)
max_path_length == 260

path_separator == "\\"

default_prefix == "tmp"

\* the characters of random_name, one string per character
characters ==
    << "a","b","c","d","e","f","g","h","i","j","k","l","m",
       "n","o","p","q","r","s","t","u","v","w","x","y","z",
       "0","1","2","3","4","5","6","7","8","9","_" >>

\* `auto const k = 8` of random_name
k == 8

\* the upper argument of randrange in random_name
RandRangeMax == 36

(***************************************************************************)
(* The environment and the names the model draws from.                     *)
(***************************************************************************)
EnvVars == {"TEMP", "TMP", "TMPDIR", "SYSTEMROOT", "USERPROFILE", "CD"}

\* std::getenv: <<>> is the null pointer, <<v>> the value v
Unset == [v \in EnvVars |-> << >>]

EnvChoices == { Unset }

\* every variable set, each to a directory of its own
EnvAllSet ==
    [v \in EnvVars |->
        CASE v = "TEMP"        -> << "d:\\a" >>
          [] v = "TMP"         -> << "d:\\b" >>
          [] v = "TMPDIR"      -> << "d:\\c" >>
          [] v = "SYSTEMROOT"  -> << "c:\\windows" >>
          [] v = "USERPROFILE" -> << "c:\\users\\u" >>
          [] OTHER             -> << "d:\\w" >> ]

\* TEMP is set to the empty string (std::getenv returns a pointer to "")
EnvEmptyTemp == [Unset EXCEPT !["TEMP"] = << "" >>, !["TMPDIR"] = << "d:\\c" >>]

\* CD is set to the empty string
EnvEmptyCd == [Unset EXCEPT !["TMP"] = << "d:\\b" >>, !["CD"] = << "" >>]

\* the environments a process is started in
EnvSettings == { Unset, EnvAllSet, EnvEmptyTemp, EnvEmptyCd }

\* the values std::rand() returns, of which the model draws three
RandValues == {0, 35, 36}

\* the k draws of one random_name call: the model repeats one value k times
RandDraws == { [i \in 1..k |-> v] : v \in RandValues }

RECURSIVE Repeat(_, _)
Repeat(s, n) ==
    IF n = 0 THEN ""
    ELSE LET half == Repeat(s, n \div 2)
         IN  IF n % 2 = 0 THEN half \o half ELSE half \o half \o s

\* a prefix as long as the longest path allowed
LongPrefix == Repeat("x", max_path_length)

Prefixes == {default_prefix, LongPrefix}

\* the longest prefix that passes the length check of tempfile.cpp:215 in
\* "c:\\tmp", and so fails it in "c:\\temp"
EdgePrefix == Repeat("y", max_path_length - 1 - Len("c:\\tmp") - Len(path_separator) - k)

\* the prefixes a single handle is constructed with
PrefixesEnv == Prefixes \cup {"t", EdgePrefix}

Kinds == {"directory", "scoped_directory"}

\* the kinds of things that may lie inside a directory
EntryKinds == {"file", "subdir"}

(***************************************************************************)
(* Pure functions of tempfile.cpp.                                         *)
(***************************************************************************)
randrange(_min, _max, r) == _min + (r % (_max - _min))

RECURSIVE NameFrom(_, _)
NameFrom(draws, i) ==
    IF i > k THEN ""
    ELSE characters[randrange(0, RandRangeMax, draws[i]) + 1] \o NameFrom(draws, i + 1)

random_name(draws) == NameFrom(draws, 1)

\* the candidates `var` adds when std::getenv(var) is not null
FromEnv(e, var, suffix) ==
    IF e[var] # << >> THEN << e[var][1] \o suffix >> ELSE << >>

paths_to_try(e) ==
    FromEnv(e, "TEMP", "") \o FromEnv(e, "TMP", "") \o FromEnv(e, "TMPDIR", "")
    \o FromEnv(e, "SYSTEMROOT", "\\Temp")
    \o FromEnv(e, "USERPROFILE", "\\AppData\\Local\\Temp")
    \o << "c:\\temp", "c:\\tmp" >>
    \o FromEnv(e, "CD", "")

\* the condition of tempfile.cpp:215 with the length of the prefix left out
TooLongNoPrefix(path, prefix, random_string) ==
    Len(path) + Len(path_separator) + Len(random_string) + 1 > max_path_length

\* the condition of tempfile.cpp:215
TooLong(path, prefix, random_string) ==
    Len(path) + Len(path_separator) + Len(prefix) + Len(random_string) + 1
        > max_path_length

\* path_to_try formed with default_prefix where the code uses _prefix
JoinDefaultPrefix(path, prefix, random_string) ==
    path \o path_separator \o default_prefix \o random_string

\* path_to_try of tempfile.cpp:221-224
Join(path, prefix, random_string) ==
    path \o path_separator \o prefix \o random_string

(***************************************************************************)
(* The filesystem: the base directories that exist (roots), the            *)
(* directories at the paths create() can form (dirs) and what lies inside  *)
(* them (entries).  Nothing but a directory is ever found at such a path.  *)
(***************************************************************************)
\* every base directory a candidate list can name
AllBases == UNION { {ps[i] : i \in 1..Len(ps)} : ps \in {paths_to_try(e) : e \in EnvSettings} }

\* every path create() can form
AllPaths ==
    { Join(b, pre, random_name(r)) : b \in AllBases, pre \in PrefixesEnv, r \in RandDraws }

\* the paths the other programs of the model use: one name in every base
ExtPaths ==
    { Join(b, default_prefix, random_name([i \in 1..k |-> 0])) : b \in AllBases }

\* the directory each path lies in
ParentTable ==
    [ p \in AllPaths |->
        CHOOSE b \in AllBases :
            \E pre \in PrefixesEnv, r \in RandDraws : Join(b, pre, random_name(r)) = p ]

parent_path(p) == ParentTable[p]

directory_exists(p) == p \in dirs

\* create_directory taken to succeed when the directory is there already
make_directory_or_existing(p) ==
    IF parent_path(p) \notin roots THEN "throw" ELSE "true"

\* std::filesystem::create_directory: "true" when it made the directory, "false"
\* when the directory was there already, "throw" (filesystem_error) when the
\* parent is missing or cannot be written to
make_directory(p) ==
    IF parent_path(p) \notin roots THEN "throw"
    ELSE IF p \in dirs THEN "false"
    ELSE "true"

\* the regular files directly inside p
get_files_in_directory(p) == { x \in entries : x[1] = p /\ x[2] = "file" }

\* std::filesystem::remove of the listed files, on a set of entries
remove_file(files, es) == es \ files

\* std::filesystem::remove, which leaves a directory that is not empty: what
\* remove_directory would do had it been written with remove
remove_directory_flat(p, ds, es) ==
    IF \E x \in es : x[1] = p
    THEN [ok |-> FALSE, dirs |-> ds, entries |-> es]
    ELSE [ok |-> p \in ds, dirs |-> ds \ {p}, entries |-> es]

\* std::filesystem::remove_all: the directory goes with all that is in it;
\* the count it returns, taken as a bool, is false when nothing was there
remove_directory(p, ds, es) ==
    [ok |-> p \in ds, dirs |-> ds \ {p}, entries |-> { x \in es : x[1] # p }]

(***************************************************************************)
(* The initial state: no handle is constructed yet, and the base           *)
(* directories that exist hold no temporary directory.                     *)
(***************************************************************************)
\* what `last` holds before any call returned
NoCall == [op |-> "none", ret |-> "none", files |-> 0]

\* no temporary directory exists, no handle is constructed
InitRest ==
    /\ dirs = {}
    /\ entries = {}
    /\ mutex = 0
    /\ terminated = FALSE
    /\ pc = [h \in Handles |-> "unborn"]
    /\ ctx = [h \in Handles |-> "none"]
    /\ kind = [h \in Handles |-> "directory"]
    /\ _good = [h \in Handles |-> FALSE]
    /\ _prefix = [h \in Handles |-> default_prefix]
    /\ _path = [h \in Handles |-> ""]
    /\ ipath = [h \in Handles |-> 0]
    /\ itry = [h \in Handles |-> 0]
    /\ path_to_try = [h \in Handles |-> ""]
    /\ removed = [h \in Handles |-> 0]
    /\ last = [h \in Handles |-> NoCall]
    /\ madeBy = {}

Init ==
    /\ env \in EnvChoices
    /\ roots \in { {"c:\\temp"}, {"c:\\temp", "c:\\tmp"} }
    /\ InitRest

\* the base directories that exist when a process is started in any of the
\* environments: all of them, or the two fixed ones
RootChoicesEnv == { AllBases, {"c:\\temp", "c:\\tmp"} }

InitEnv ==
    /\ env \in EnvSettings
    /\ roots \in RootChoicesEnv
    /\ InitRest

(***************************************************************************)
(* Returning from create() and remove().  What follows the return depends  *)
(* on the caller: the user ("user"), the constructor of scoped_directory   *)
(* ("ctor"), ~scoped_directory ("dtor_scoped") or ~directory               *)
(* ("dtor_base").  `ret` is "true", "false" or, for an exception that      *)
(* leaves the call, "throw".                                               *)
(***************************************************************************)
\* where the thread stands after the call returned: a constructor left by an
\* exception runs ~directory; ~scoped_directory is followed by ~directory
PcAfter(caller, ret) ==
    CASE caller = "ctor" /\ ret = "throw" -> "dtor_base"
      [] caller = "dtor_scoped"           -> "dtor_base"
      [] caller = "dtor_base"             -> "dead"
      [] OTHER                            -> "idle"

\* an exception that leaves a destructor ends the process
Terminates(caller, ret) ==
    ret = "throw" /\ caller \in {"dtor_scoped", "dtor_base"}

\* Return without the release of the scoped_lock
ReturnKeepsLock(h, caller, op, ret, n) ==
    /\ mutex' = mutex
    /\ last' = [last EXCEPT ![h] = [op |-> op, ret |-> ret, files |-> n]]
    /\ pc' = [pc EXCEPT ![h] = PcAfter(caller, ret)]
    /\ ctx' = [ctx EXCEPT ![h] = "none"]
    /\ terminated' = Terminates(caller, ret)
    /\ ipath' = [ipath EXCEPT ![h] = 0]
    /\ itry' = [itry EXCEPT ![h] = 0]
    /\ path_to_try' = [path_to_try EXCEPT ![h] = ""]
    /\ removed' = [removed EXCEPT ![h] = 0]

\* the call returns: the scoped_lock is released and the locals are gone
Return(h, caller, op, ret, n) ==
    /\ mutex' = 0
    /\ last' = [last EXCEPT ![h] = [op |-> op, ret |-> ret, files |-> n]]
    /\ pc' = [pc EXCEPT ![h] = PcAfter(caller, ret)]
    /\ ctx' = [ctx EXCEPT ![h] = "none"]
    /\ terminated' = Terminates(caller, ret)
    /\ ipath' = [ipath EXCEPT ![h] = 0]
    /\ itry' = [itry EXCEPT ![h] = 0]
    /\ path_to_try' = [path_to_try EXCEPT ![h] = ""]
    /\ removed' = [removed EXCEPT ![h] = 0]

(***************************************************************************)
(* Construction.                                                           *)
(***************************************************************************)
\* directory::directory, and scoped_directory::scoped_directory up to its
\* call of create()
Construct(h, kd, prefix) ==
    /\ ~terminated
    /\ pc[h] = "unborn"
    /\ kind' = [kind EXCEPT ![h] = kd]
    /\ _good' = [_good EXCEPT ![h] = FALSE]
    /\ _prefix' = [_prefix EXCEPT ![h] = prefix]
    /\ pc' = [pc EXCEPT ![h] = IF kd = "scoped_directory" THEN "ctor" ELSE "idle"]
    /\ UNCHANGED <<env, roots, dirs, entries, mutex, terminated, ctx, _path, ipath,
                   itry, path_to_try, removed, last, madeBy>>

(***************************************************************************)
(* directory::create                                                       *)
(***************************************************************************)
\* the test of tempfile.cpp:198 with the negation of empty() left out
AlreadyValidEmptyPath(h) == _path[h] = "" /\ _good[h]

\* the test of tempfile.cpp:198
AlreadyValid(h) == _path[h] # "" /\ _good[h]

\* the two for loops of create(): a position <<i, t>> is inside them
InLoops(i, t) == i <= Len(paths_to_try(env)) /\ t < MaxTries

\* the position after `break`: the next base path, whatever itry is
NextPosNextBase(i, t) == <<i + 1, 0>>

\* the position after `continue`, or after the end of the inner loop's body
NextPos(i, t) == IF t + 1 < MaxTries THEN <<i, t + 1>> ELSE <<i + 1, 0>>

\* go on with the loops at position pos, or leave them and return false
Continue(h, caller, pos) ==
    IF InLoops(pos[1], pos[2])
    THEN /\ ipath' = [ipath EXCEPT ![h] = pos[1]]
         /\ itry' = [itry EXCEPT ![h] = pos[2]]
         /\ pc' = [pc EXCEPT ![h] = "create_try"]
         /\ ctx' = [ctx EXCEPT ![h] = caller]
         /\ path_to_try' = [path_to_try EXCEPT ![h] = ""]
         /\ mutex' = h
         /\ UNCHANGED <<terminated, last, removed>>
    ELSE Return(h, caller, "create", "false", 0)

\* create() is called, by the user or by the constructor of scoped_directory:
\* the scoped_lock is taken (the thread waits until the mutex is free), the
\* handle is tested and the candidates are read
CreateEnter(h) ==
    /\ ~terminated
    /\ pc[h] \in {"idle", "ctor"}
    /\ mutex = 0
    /\ LET caller == IF pc[h] = "ctor" THEN "ctor" ELSE "user"
       IN  IF AlreadyValid(h)
           THEN Return(h, caller, "create", "false", 0)
           ELSE Continue(h, caller, <<1, 0>>)
    /\ UNCHANGED <<env, roots, dirs, entries, kind, _good, _prefix, _path, madeBy>>

\* one pass of the inner loop up to the existence check: a name is drawn,
\* the length is tested, the path is formed and looked up
CreateAttempt(h, draws) ==
    /\ ~terminated
    /\ pc[h] = "create_try"
    /\ LET path == paths_to_try(env)[ipath[h]]
           random_string == random_name(draws)
           candidate == Join(path, _prefix[h], random_string)
       IN  IF TooLong(path, _prefix[h], random_string)
           THEN Continue(h, ctx[h], NextPos(ipath[h], itry[h]))
           ELSE IF directory_exists(candidate)
           THEN Continue(h, ctx[h], NextPos(ipath[h], itry[h]))
           ELSE /\ pc' = [pc EXCEPT ![h] = "create_make"]
                /\ path_to_try' = [path_to_try EXCEPT ![h] = candidate]
                /\ UNCHANGED <<mutex, ctx, terminated, last, ipath, itry, removed>>
    /\ UNCHANGED <<env, roots, dirs, entries, kind, _good, _prefix, _path, madeBy>>

\* CreateMake storing `path`, the base directory, where the code stores
\* path_to_try
CreateMakeStoresBase(h) ==
    /\ ~terminated
    /\ pc[h] = "create_make"
    /\ LET p == path_to_try[h]
           made == make_directory(p)
       IN  CASE made = "true" ->
                  /\ dirs' = dirs \cup {p}
                  /\ madeBy' = madeBy \cup {<<p, h>>}
                  /\ _path' = [_path EXCEPT ![h] = paths_to_try(env)[ipath[h]]]
                  /\ _good' = [_good EXCEPT ![h] = TRUE]
                  /\ Return(h, ctx[h], "create", "true", 0)
             [] made = "false" ->
                  /\ Continue(h, ctx[h], NextPos(ipath[h], itry[h]))
                  /\ UNCHANGED <<dirs, madeBy, _path, _good>>
             [] OTHER ->
                  /\ Return(h, ctx[h], "create", "throw", 0)
                  /\ UNCHANGED <<dirs, madeBy, _path, _good>>
    /\ UNCHANGED <<env, roots, entries, kind, _prefix>>

\* CreateMake storing path_to_try before it looks at what make_directory
\* returned
CreateMakeStoresEarly(h) ==
    /\ ~terminated
    /\ pc[h] = "create_make"
    /\ LET p == path_to_try[h]
           made == make_directory(p)
       IN  CASE made = "true" ->
                  /\ dirs' = dirs \cup {p}
                  /\ madeBy' = madeBy \cup {<<p, h>>}
                  /\ _path' = [_path EXCEPT ![h] = p]
                  /\ _good' = [_good EXCEPT ![h] = TRUE]
                  /\ Return(h, ctx[h], "create", "true", 0)
             [] made = "false" ->
                  /\ Continue(h, ctx[h], NextPos(ipath[h], itry[h]))
                  /\ _path' = [_path EXCEPT ![h] = p]
                  /\ UNCHANGED <<dirs, madeBy, _good>>
             [] OTHER ->
                  /\ Return(h, ctx[h], "create", "throw", 0)
                  /\ _path' = [_path EXCEPT ![h] = p]
                  /\ UNCHANGED <<dirs, madeBy, _good>>
    /\ UNCHANGED <<env, roots, entries, kind, _prefix>>

\* CreateMake returning false as soon as make_directory returned false
CreateMakeGivesUp(h) ==
    /\ ~terminated
    /\ pc[h] = "create_make"
    /\ LET p == path_to_try[h]
           made == make_directory(p)
       IN  CASE made = "true" ->
                  /\ dirs' = dirs \cup {p}
                  /\ madeBy' = madeBy \cup {<<p, h>>}
                  /\ _path' = [_path EXCEPT ![h] = p]
                  /\ _good' = [_good EXCEPT ![h] = TRUE]
                  /\ Return(h, ctx[h], "create", "true", 0)
             [] made = "false" ->
                  /\ Return(h, ctx[h], "create", "false", 0)
                  /\ UNCHANGED <<dirs, madeBy, _path, _good>>
             [] OTHER ->
                  /\ Return(h, ctx[h], "create", "throw", 0)
                  /\ UNCHANGED <<dirs, madeBy, _path, _good>>
    /\ UNCHANGED <<env, roots, entries, kind, _prefix>>

\* the rest of the pass: make_directory, and what follows its result
CreateMake(h) ==
    /\ ~terminated
    /\ pc[h] = "create_make"
    /\ LET p == path_to_try[h]
           made == make_directory(p)
       IN  CASE made = "true" ->
                  /\ dirs' = dirs \cup {p}
                  /\ madeBy' = madeBy \cup {<<p, h>>}
                  /\ _path' = [_path EXCEPT ![h] = p]
                  /\ _good' = [_good EXCEPT ![h] = TRUE]
                  /\ Return(h, ctx[h], "create", "true", 0)
             [] made = "false" ->
                  /\ Continue(h, ctx[h], NextPos(ipath[h], itry[h]))
                  /\ UNCHANGED <<dirs, madeBy, _path, _good>>
             [] OTHER ->
                  /\ Return(h, ctx[h], "create", "throw", 0)
                  /\ UNCHANGED <<dirs, madeBy, _path, _good>>
    /\ UNCHANGED <<env, roots, entries, kind, _prefix>>

(***************************************************************************)
(* directory::remove and the destructors                                   *)
(***************************************************************************)
\* the condition of tempfile.cpp:247 without its existence check
ShouldRemoveIfGood(h) == _good[h]

\* the condition of tempfile.cpp:247
ShouldRemove(h) == _good[h] /\ directory_exists(_path[h])

\* remove() up to its test: the scoped_lock is taken (the thread waits until
\* the mutex is free) and the condition of tempfile.cpp:247 is evaluated
RemoveEnter(h, caller) ==
    /\ ~terminated
    /\ mutex = 0
    /\ IF ShouldRemove(h)
       THEN /\ pc' = [pc EXCEPT ![h] = "remove_delete"]
            /\ ctx' = [ctx EXCEPT ![h] = caller]
            /\ mutex' = h
            /\ UNCHANGED <<terminated, last, ipath, itry, path_to_try, removed>>
       ELSE Return(h, caller, "remove", "false", 0)
    /\ UNCHANGED <<env, roots, dirs, entries, kind, _good, _prefix, _path, madeBy>>

\* the user calls remove()
Remove(h) ==
    /\ pc[h] = "idle"
    /\ RemoveEnter(h, "user")

\* the handle goes out of scope: a scoped_directory runs ~scoped_directory,
\* a directory runs ~directory; each calls remove()
Destroy(h) ==
    /\ pc[h] = "idle"
    /\ RemoveEnter(h, IF kind[h] = "scoped_directory" THEN "dtor_scoped" ELSE "dtor_base")

\* ~directory, run after ~scoped_directory or after a constructor that threw
BaseDestroy(h) ==
    /\ pc[h] = "dtor_base"
    /\ RemoveEnter(h, "dtor_base")

\* the loop of tempfile.cpp:249-252: the regular files are listed and
\* removed; the directory_iterator throws if the directory is gone by now
RemoveDelete(h) ==
    /\ ~terminated
    /\ pc[h] = "remove_delete"
    /\ IF _path[h] \in dirs
       THEN LET files == get_files_in_directory(_path[h])
            IN  /\ entries' = remove_file(files, entries)
                /\ removed' = [removed EXCEPT ![h] = Cardinality(files)]
                /\ pc' = [pc EXCEPT ![h] = "remove_dir"]
                /\ UNCHANGED <<mutex, ctx, terminated, last, ipath, itry, path_to_try>>
       ELSE /\ UNCHANGED entries
            /\ Return(h, ctx[h], "remove", "throw", 0)
    /\ UNCHANGED <<env, roots, dirs, kind, _good, _prefix, _path, madeBy>>

\* tempfile.cpp:253-254: the directory is removed with whatever is left in
\* it, what remove_directory returns is dropped, and remove() returns true
RemoveDir(h) ==
    /\ ~terminated
    /\ pc[h] = "remove_dir"
    /\ LET left == remove_directory(_path[h], dirs, entries)
       IN  /\ dirs' = left.dirs
           /\ entries' = left.entries
           /\ madeBy' = { x \in madeBy : x[1] \in left.dirs }
           /\ Return(h, ctx[h], "remove", "true", removed[h])
    /\ UNCHANGED <<env, roots, kind, _good, _prefix, _path>>

(***************************************************************************)
(* tempfile::file and tempfile::scoped_file.  A file handle has the fields *)
(* of a directory handle and uses the same variables; where its thread     *)
(* stands is "file_idle" (constructed) or "file_dtor" (~scoped_file has    *)
(* called remove(), ~file is to run).  No code assigns a file handle's     *)
(* _path or sets its _good.                                                *)
(***************************************************************************)
FileKinds == {"file", "scoped_file"}

\* std::filesystem::exists: something is at p (the empty path names nothing)
file_exists(p) == p \in dirs

\* file::file and scoped_file::scoped_file: the fields are set, nothing else
ConstructFile(h, kd, prefix) ==
    /\ ~terminated
    /\ pc[h] = "unborn"
    /\ kind' = [kind EXCEPT ![h] = kd]
    /\ _good' = [_good EXCEPT ![h] = FALSE]
    /\ _prefix' = [_prefix EXCEPT ![h] = prefix]
    /\ pc' = [pc EXCEPT ![h] = "file_idle"]
    /\ UNCHANGED <<env, roots, dirs, entries, mutex, terminated, ctx, _path, ipath,
                   itry, path_to_try, removed, last, madeBy>>

\* the condition of tempfile.cpp:280 and of tempfile.cpp:288
FileShouldRemove(h) == _good[h] /\ file_exists(_path[h])

\* remove_file(_path) of tempfile.cpp:282 and 290: std::filesystem::remove
\* takes away what is at the path, and throws when that is a directory
\* that is not empty; "gone" or "throw"
FileUnlink(h) ==
    IF \E x \in entries : x[1] = _path[h] THEN "throw" ELSE "gone"

\* file::remove(), called by the user ("user") or by ~scoped_file
\* ("dtor_scoped"): it takes no lock, so it runs whoever holds the mutex
FileRemoveBody(h, caller) ==
    /\ ~terminated
    /\ LET ret == IF FileShouldRemove(h)
                  THEN (IF FileUnlink(h) = "gone" THEN "true" ELSE "throw")
                  ELSE "false"
       IN  /\ dirs' = IF ret = "true" THEN dirs \ {_path[h]} ELSE dirs
           /\ madeBy' = IF ret = "true" THEN { x \in madeBy : x[1] # _path[h] } ELSE madeBy
           /\ last' = [last EXCEPT ![h] = [op |-> "remove", ret |-> ret, files |-> 0]]
           /\ pc' = [pc EXCEPT ![h] = IF caller = "user" THEN "file_idle" ELSE "file_dtor"]
           /\ terminated' = (ret = "throw" /\ caller # "user")
    /\ UNCHANGED <<env, roots, entries, mutex, ctx, kind, _good, _prefix, _path, ipath,
                   itry, path_to_try, removed>>

\* file::~file: the scoped_lock is taken (the thread waits until the mutex
\* is free), the file is removed if the handle is good and it exists, and
\* the lock is released
FileDtor(h) ==
    /\ ~terminated
    /\ mutex = 0
    /\ LET ret == IF FileShouldRemove(h)
                  THEN (IF FileUnlink(h) = "gone" THEN "true" ELSE "throw")
                  ELSE "false"
       IN  /\ dirs' = IF ret = "true" THEN dirs \ {_path[h]} ELSE dirs
           /\ madeBy' = IF ret = "true" THEN { x \in madeBy : x[1] # _path[h] } ELSE madeBy
           /\ terminated' = (ret = "throw")
    /\ pc' = [pc EXCEPT ![h] = "dead"]
    /\ UNCHANGED <<env, roots, entries, mutex, ctx, kind, _good, _prefix, _path, ipath,
                   itry, path_to_try, removed, last>>

\* the user calls remove() on a file handle
FileRemove(h) ==
    /\ pc[h] = "file_idle"
    /\ FileRemoveBody(h, "user")

\* a file handle goes out of scope: a scoped_file runs ~scoped_file, which
\* calls remove(); a file runs ~file
FileDestroy(h) ==
    /\ pc[h] = "file_idle"
    /\ IF kind[h] = "scoped_file" THEN FileRemoveBody(h, "dtor_scoped") ELSE FileDtor(h)

\* ~file, run after ~scoped_file
FileBaseDestroy(h) ==
    /\ pc[h] = "file_dtor"
    /\ FileDtor(h)

(***************************************************************************)
(* The user of a handle, and the other programs on the machine.            *)
(***************************************************************************)
\* the user puts a file or a subdirectory into the directory at path()
PlaceEntry(h, e) ==
    /\ ~terminated
    /\ pc[h] = "idle"
    /\ _good[h]
    /\ _path[h] \in dirs
    /\ <<_path[h], e>> \notin entries
    /\ entries' = entries \cup {<<_path[h], e>>}
    /\ UNCHANGED <<env, roots, dirs, mutex, terminated, madeBy>>
    /\ UNCHANGED hvars

\* another program makes a directory at a path create() may draw
ExtMkdir(p) ==
    /\ ~terminated
    /\ parent_path(p) \in roots
    /\ p \notin dirs
    /\ dirs' = dirs \cup {p}
    /\ UNCHANGED <<env, roots, entries, mutex, terminated, madeBy>>
    /\ UNCHANGED hvars

\* another program removes a directory and all that is in it
ExtRmdir(p) ==
    /\ ~terminated
    /\ p \in dirs
    /\ dirs' = dirs \ {p}
    /\ entries' = { x \in entries : x[1] # p }
    /\ madeBy' = { x \in madeBy : x[1] # p }
    /\ UNCHANGED <<env, roots, mutex, terminated>>
    /\ UNCHANGED hvars

(***************************************************************************)
(* Specifications.                                                         *)
(***************************************************************************)
\* the steps of create(), with the construction that leads to them
CreateSteps ==
    \/ \E h \in Handles, kd \in Kinds, prefix \in Prefixes : Construct(h, kd, prefix)
    \/ \E h \in Handles : CreateEnter(h)
    \/ \E h \in Handles, draws \in RandDraws : CreateAttempt(h, draws)
    \/ \E h \in Handles : CreateMake(h)

\* the steps of remove() and of the destructors, and the user's files
RemoveSteps ==
    \/ \E h \in Handles : Remove(h)
    \/ \E h \in Handles : Destroy(h)
    \/ \E h \in Handles : BaseDestroy(h)
    \/ \E h \in Handles : RemoveDelete(h)
    \/ \E h \in Handles : RemoveDir(h)
    \/ \E h \in Handles, e \in EntryKinds : PlaceEntry(h, e)

\* the whole system: the handles of this process and the other programs
Next ==
    \/ CreateSteps
    \/ RemoveSteps
    \/ \E p \in ExtPaths : ExtMkdir(p)
    \/ \E p \in ExtPaths : ExtRmdir(p)

Spec == Init /\ [][Next]_vars

\* this process alone: nothing else touches the temporary directories
NextInProc == CreateSteps \/ RemoveSteps

SpecInProc == Init /\ [][NextInProc]_vars

\* the steps of the file handles
FileSteps ==
    \/ \E h \in Handles, kd \in FileKinds : ConstructFile(h, kd, default_prefix)
    \/ \E h \in Handles : FileRemove(h)
    \/ \E h \in Handles : FileDestroy(h)
    \/ \E h \in Handles : FileBaseDestroy(h)

\* this process alone, its handles being directories and files
NextFiles == NextInProc \/ FileSteps

SpecFiles == Init /\ [][NextFiles]_vars

\* fair scheduling: a thread inside create() or remove() takes its next
\* step, and a thread inside a constructor or a destructor that waits for
\* the mutex gets it if the mutex is free again and again
Fairness ==
    \A h \in Handles :
        /\ WF_vars(\E draws \in RandDraws : CreateAttempt(h, draws))
        /\ WF_vars(CreateMake(h))
        /\ WF_vars(RemoveDelete(h))
        /\ WF_vars(RemoveDir(h))
        /\ SF_vars(pc[h] = "ctor" /\ CreateEnter(h))
        /\ SF_vars(BaseDestroy(h))
        /\ SF_vars(FileBaseDestroy(h))

\* the calls into the library alone: every step of NextFiles but the
\* user's writing into a directory, which no call waits for
NextCalls ==
    \/ CreateSteps
    \/ \E h \in Handles : Remove(h)
    \/ \E h \in Handles : Destroy(h)
    \/ \E h \in Handles : BaseDestroy(h)
    \/ \E h \in Handles : RemoveDelete(h)
    \/ \E h \in Handles : RemoveDir(h)
    \/ FileSteps

SpecFair == Init /\ [][NextCalls]_vars /\ Fairness

\* handles that are only created, next to programs that only add directories
NextCreate ==
    \/ CreateSteps
    \/ \E p \in ExtPaths : ExtMkdir(p)

SpecCreate == Init /\ [][NextCreate]_vars

\* one handle, constructed with any prefix in any environment, whose create()
\* is called next to programs that only add directories
NextEnv ==
    \/ \E kd \in Kinds, prefix \in PrefixesEnv : Construct(1, kd, prefix)
    \/ CreateEnter(1)
    \/ \E draws \in RandDraws : CreateAttempt(1, draws)
    \/ CreateMake(1)
    \/ \E p \in ExtPaths : ExtMkdir(p)

SpecEnv == InitEnv /\ [][NextEnv]_vars

(***************************************************************************)
(* Vocabulary of the properties.  A step is recognised by what it does to  *)
(* the handle's thread, not by the action that takes it.                   *)
(***************************************************************************)
Alive(h) == pc[h] \notin {"unborn", "dead"}

InCreate(h) == pc[h] \in {"create_try", "create_make"}

InRemove(h) == pc[h] \in {"remove_delete", "remove_dir"}

\* this step is one of handle h's create(): its first, or a later one
CreateStep(h) ==
    \/ InCreate(h) /\ <<pc[h], ipath[h], itry[h], path_to_try[h]>>'
                         # <<pc[h], ipath[h], itry[h], path_to_try[h]>>
    \/ pc[h] \in {"idle", "ctor"} /\ InCreate(h)'
    \/ pc[h] \in {"idle", "ctor"} /\ last'[h] # last[h] /\ last'[h].op = "create"

\* this step starts a create() of handle h
CreateStarts(h) == pc[h] \in {"idle", "ctor"} /\ CreateStep(h)

\* this step ends a create() of handle h, which returns ret
CreateReturns(h, ret) ==
    /\ CreateStep(h)
    /\ ~InCreate(h)'
    /\ last'[h].op = "create"
    /\ last'[h].ret = ret

\* this step starts a remove() of handle h, called by the user or a destructor
RemoveStarts(h) ==
    /\ pc[h] \in {"idle", "dtor_base"}
    /\ \/ pc'[h] = "remove_delete"
       \/ /\ pc'[h] \in {"idle", "dtor_base", "dead"}
          /\ last'[h].op = "remove"
          /\ last'[h] # last[h] \/ pc'[h] # pc[h]

\* this step starts a remove() of handle h that the user called
UserRemoveStarts(h) ==
    /\ RemoveStarts(h)
    /\ pc[h] = "idle"
    /\ pc'[h] = "idle" \/ (pc'[h] = "remove_delete" /\ ctx'[h] = "user")

\* this step ends a remove() of handle h, which returns ret
RemoveReturns(h, ret) ==
    /\ \/ RemoveStarts(h) /\ ~InRemove(h)'
       \/ InRemove(h) /\ ~InRemove(h)'
    /\ last'[h].op = "remove"
    /\ last'[h].ret = ret

\* what lies inside the directory at p
Inside(p) == { x \in entries : x[1] = p }

\* h holds a directory that its create() made and nothing has removed since
Owns(h) == _good[h] /\ <<_path[h], h>> \in madeBy

(***************************************************************************)
(* C1.  Handles that are only created, all with the same prefix, by        *)
(* threads that run at the same time: the handles whose create() has       *)
(* returned true hold paths that differ from one another.                  *)
(***************************************************************************)
C1_DistinctPaths ==
    \A h1 \in Handles : \A h2 \in Handles \ {h1} :
        ( /\ _good[h1] /\ _good[h2]
          /\ _prefix[h1] = _prefix[h2] )
        => _path[h1] # _path[h2]

\* two handles with the same prefix have both been created in the same base
C1_Witness ==
    \E h1 \in Handles : \E h2 \in Handles \ {h1} :
        /\ last[h1] = [op |-> "create", ret |-> "true", files |-> 0]
        /\ last[h2] = [op |-> "create", ret |-> "true", files |-> 0]
        /\ _prefix[h1] = _prefix[h2]
        /\ _path[h1] \in dirs /\ _path[h2] \in dirs
        /\ parent_path(_path[h1]) = parent_path(_path[h2])

(***************************************************************************)
(* C2.  A create() that returns true leaves good() true and path() at a    *)
(* directory that was not there when the call made it, is there now and    *)
(* is empty; the call made that one directory and changed nothing else in  *)
(* the filesystem, in this step or in any earlier step of the call.        *)
(***************************************************************************)
C2_CreateSuccess ==
    [][ \A h \in Handles :
          /\ CreateReturns(h, "true") =>
               /\ _good'[h]
               /\ _path'[h] # ""
               /\ _path'[h] \notin dirs
               /\ dirs' = dirs \cup {_path'[h]}
               /\ { x \in entries' : x[1] = _path'[h] } = {}
               /\ entries' = entries
          /\ (CreateStep(h) /\ ~CreateReturns(h, "true")) =>
               /\ dirs' = dirs
               /\ entries' = entries
      ]_vars

\* a create() has returned true and the directory is there
C2_Witness ==
    \E h \in Handles :
        /\ pc[h] = "idle"
        /\ last[h] = [op |-> "create", ret |-> "true", files |-> 0]
        /\ _good[h]
        /\ _path[h] \in dirs
        /\ Inside(_path[h]) = {}

(***************************************************************************)
(* C3.  A create() that returns false on a handle that was not valid       *)
(* leaves good() false and path() empty, and no step of the call has       *)
(* changed the filesystem.                                                 *)
(***************************************************************************)
C3_CreateFailure ==
    [][ \A h \in Handles :
          /\ (CreateReturns(h, "false") /\ ~_good[h]) =>
               /\ ~_good'[h]
               /\ _path'[h] = ""
               /\ _path'[h] = _path[h]
               /\ dirs' = dirs
               /\ entries' = entries
          /\ (CreateStep(h) /\ ~CreateReturns(h, "true")) =>
               /\ _good'[h] = _good[h]
               /\ _path'[h] = _path[h]
               /\ dirs' = dirs
               /\ entries' = entries
      ]_vars

\* a create() with the default prefix has used up every base path and
\* returned false: every name it drew was taken
C3_Witness ==
    \E h \in Handles :
        /\ pc[h] = "idle"
        /\ last[h] = [op |-> "create", ret |-> "false", files |-> 0]
        /\ _prefix[h] = default_prefix
        /\ ~_good[h]
        /\ _path[h] = ""

(***************************************************************************)
(* C4.  create() on a handle that holds the directory its earlier create() *)
(* made returns false at once and changes neither path(), good() nor the   *)
(* filesystem.                                                             *)
(***************************************************************************)
C4_CreateOnValid ==
    [][ \A h \in Handles :
          (Owns(h) /\ CreateStarts(h)) =>
               /\ CreateReturns(h, "false")
               /\ _good'[h] = _good[h]
               /\ _path'[h] = _path[h]
               /\ dirs' = dirs
               /\ entries' = entries
               /\ madeBy' = madeBy
      ]_vars

\* create() has returned false on a handle that still holds its directory
C4_Witness ==
    \E h \in Handles :
        /\ pc[h] = "idle"
        /\ last[h] = [op |-> "create", ret |-> "false", files |-> 0]
        /\ Owns(h)
        /\ _path[h] \in dirs

(***************************************************************************)
(* C5.  remove() twice in a row on a valid handle: the first call goes on  *)
(* to remove the directory and returns true, after which good() is false,  *)
(* and the second call returns false.                                      *)
(***************************************************************************)
C5_RemoveTwice ==
    [][ \A h \in Handles :
          /\ (Owns(h) /\ UserRemoveStarts(h)) => pc'[h] = "remove_delete"
          /\ (InRemove(h) /\ pc'[h] = "idle") => RemoveReturns(h, "true")
          /\ (RemoveReturns(h, "true") /\ pc'[h] = "idle") => ~_good'[h]
          /\ (last[h].op = "remove" /\ last[h].ret = "true" /\ UserRemoveStarts(h)) =>
               RemoveReturns(h, "false")
      ]_vars

(***************************************************************************)
(* C6.  In every state, a handle whose good() is true has a path() at      *)
(* which a directory exists, and that directory was made by this handle's  *)
(* own create().                                                           *)
(***************************************************************************)
C6_GoodMeansOwned ==
    \A h \in Handles :
        (Alive(h) /\ _good[h]) =>
            /\ _path[h] \in dirs
            /\ <<_path[h], h>> \in madeBy

(***************************************************************************)
(* C7.  In every state, no two handles have good() true and the same       *)
(* path().                                                                 *)
(***************************************************************************)
C7_OneOwnerPerPath ==
    \A h1 \in Handles : \A h2 \in Handles \ {h1} :
        (Alive(h1) /\ Alive(h2) /\ _good[h1] /\ _good[h2]) => _path[h1] # _path[h2]

(***************************************************************************)
(* C8.  When a valid scoped_directory has been destroyed, there is no      *)
(* directory at its path and nothing of what was inside it; and whenever   *)
(* a remove() returns true, directory and contents are gone.               *)
(***************************************************************************)
C8_ScopedDestroyed ==
    [][ \A h \in Handles :
          /\ ( /\ kind[h] = "scoped_directory"
               /\ _good[h]
               /\ pc[h] # "dead"
               /\ pc'[h] = "dead" ) =>
                 /\ _path[h] \notin dirs'
                 /\ { x \in entries' : x[1] = _path[h] } = {}
          /\ RemoveReturns(h, "true") =>
                 /\ _path[h] \notin dirs'
                 /\ { x \in entries' : x[1] = _path[h] } = {}
      ]_vars

\* a scoped_directory that held a file is being destroyed: the remove() of
\* ~scoped_directory has returned, directory and file are gone, and
\* ~directory is about to run
C8_Witness ==
    \E h \in Handles :
        /\ kind[h] = "scoped_directory"
        /\ pc[h] = "dtor_base"
        /\ last[h] = [op |-> "remove", ret |-> "true", files |-> 1]
        /\ _good[h]
        /\ _path[h] \notin dirs
        /\ Inside(_path[h]) = {}

(***************************************************************************)
(* C9.  A handle can be used again: a create() called right after a        *)
(* remove() that returned true is not turned away as already valid, it     *)
(* goes into the loops and tries to make a new directory.                  *)
(***************************************************************************)
C9_CreateAfterRemove ==
    [][ \A h \in Handles :
          ( /\ last[h].op = "remove"
            /\ last[h].ret = "true"
            /\ CreateStarts(h) ) => InCreate(h)'
      ]_vars

(***************************************************************************)
(* C10.  remove() on a handle that is not valid, or whose path is no       *)
(* longer a directory, returns false at once and changes neither the       *)
(* filesystem nor path() nor good().                                       *)
(***************************************************************************)
C10_NothingToRemove ==
    [][ \A h \in Handles :
          (RemoveStarts(h) /\ (~_good[h] \/ _path[h] \notin dirs)) =>
               /\ RemoveReturns(h, "false")
               /\ _path'[h] = _path[h]
               /\ _good'[h] = _good[h]
               /\ dirs' = dirs
               /\ entries' = entries
               /\ madeBy' = madeBy
      ]_vars

\* remove() has returned false on a handle whose directory is gone
C10_Witness ==
    \E h \in Handles :
        /\ pc[h] = "idle"
        /\ last[h] = [op |-> "remove", ret |-> "false", files |-> 0]
        /\ _good[h]
        /\ _path[h] \notin dirs

(***************************************************************************)
(* C11.  Every directory a create() makes lies at base + separator + leaf, *)
(* where base is one of the candidate base paths and leaf is the handle's  *)
(* prefix followed by exactly 8 characters, each one of a-z, 0-9 or _; and *)
(* the path a successful create() stores is that directory's.              *)
(***************************************************************************)
\* the characters a-z, 0-9 and _
C11_Alphabet ==
    { "a","b","c","d","e","f","g","h","i","j","k","l","m","n","o","p","q","r","s",
      "t","u","v","w","x","y","z","0","1","2","3","4","5","6","7","8","9","_" }

C11_PrefixedLeaf ==
    [][ \A h \in Handles :
          CreateStep(h) =>
            /\ \A p \in dirs' \ dirs :
                 \E i \in 1..Len(paths_to_try(env)) :
                    LET head == paths_to_try(env)[i] \o path_separator \o _prefix[h]
                    IN  /\ Len(p) = Len(head) + 8
                        /\ SubSeq(p, 1, Len(head)) = head
                        /\ \A j \in (Len(head) + 1)..Len(p) : SubSeq(p, j, j) \in C11_Alphabet
            /\ CreateReturns(h, "true") => dirs' \ dirs = {_path'[h]}
      ]_vars

\* a handle with a prefix of its own has made its directory in the first
\* candidate, which comes from TEMP
C11_Witness ==
    \E h \in Handles :
        /\ last[h] = [op |-> "create", ret |-> "true", files |-> 0]
        /\ _prefix[h] = "t"
        /\ env = EnvAllSet
        /\ _good[h]
        /\ _path[h] \in dirs
        /\ parent_path(_path[h]) = "d:\\a"

(***************************************************************************)
(* C12.  A handle whose prefix is so long that in every candidate base     *)
(* path base + separator + prefix + 8 characters is longer than the        *)
(* longest path allowed: no step of its create() forms a path, looks one   *)
(* up or calls make_directory, none changes the filesystem or makes the    *)
(* handle valid, and the call ends by returning false, not by raising.     *)
(***************************************************************************)
C12_AllTooLong(h) ==
    \A i \in 1..Len(paths_to_try(env)) :
        Len(paths_to_try(env)[i]) + 1 + Len(_prefix[h]) + 8 > max_path_length

C12_PrefixTooLong ==
    [][ \A h \in Handles :
          (C12_AllTooLong(h) /\ ~_good[h] /\ CreateStep(h)) =>
            /\ pc'[h] # "create_make"
            /\ path_to_try'[h] = ""
            /\ dirs' = dirs
            /\ entries' = entries
            /\ ~_good'[h]
            /\ _path'[h] = _path[h]
            /\ ~InCreate(h)' =>
                 /\ CreateReturns(h, "false")
                 /\ ipath[h] = Len(paths_to_try(env))
                 /\ ~terminated'
      ]_vars

\* create() has returned false on a handle with such a prefix, in an
\* environment where every candidate exists and all variables are set
C12_Witness ==
    \E h \in Handles :
        /\ pc[h] = "idle"
        /\ C12_AllTooLong(h)
        /\ last[h] = [op |-> "create", ret |-> "false", files |-> 0]
        /\ env = EnvAllSet
        /\ roots = AllBases
        /\ ~_good[h]

(***************************************************************************)
(* C14.  The retry protocol of create(), with MaxTries standing for the    *)
(* attempt budget: a call starts at the first candidate with its first     *)
(* attempt; an attempt that ends in a collision, a path too long or a      *)
(* failed creation is followed by the next attempt in the same candidate,  *)
(* and by the first attempt in the next candidate only when it was the     *)
(* last of the budget; the creation that succeeds ends the call; the call  *)
(* returns false only after the last attempt in the last candidate; so no  *)
(* call makes more than budget x candidates attempts.                      *)
(***************************************************************************)
C14_RetryProtocol ==
    [][ \A h \in Handles :
          LET n == Len(paths_to_try(env)) IN
          /\ (CreateStarts(h) /\ InCreate(h)') =>
                /\ pc'[h] = "create_try"
                /\ ipath'[h] = 1
                /\ itry'[h] = 0
          /\ (InCreate(h) /\ InCreate(h)' /\ CreateStep(h)) =>
                \/ /\ pc[h] = "create_try" /\ pc'[h] = "create_make"
                   /\ ipath'[h] = ipath[h] /\ itry'[h] = itry[h]
                \/ /\ pc'[h] = "create_try"
                   /\ ipath'[h] = ipath[h] /\ itry'[h] = itry[h] + 1
                \/ /\ pc'[h] = "create_try"
                   /\ itry[h] = MaxTries - 1
                   /\ ipath'[h] = ipath[h] + 1 /\ itry'[h] = 0
          /\ InCreate(h)' =>
                /\ ipath'[h] \in 1..n
                /\ itry'[h] \in 0..(MaxTries - 1)
                /\ (ipath'[h] - 1) * MaxTries + itry'[h] + 1 <= MaxTries * n
          /\ CreateReturns(h, "true") =>
                /\ pc[h] = "create_make"
                /\ pc'[h] = "idle"
                /\ dirs' = dirs \cup {path_to_try[h]}
          /\ (InCreate(h) /\ CreateReturns(h, "false")) =>
                /\ ipath[h] = n
                /\ itry[h] = MaxTries - 1
      ]_vars

\* with no variable set, a handle has made its directory in the second
\* candidate: every attempt in the first one found its name taken
C14_Witness ==
    \E h \in Handles :
        /\ last[h] = [op |-> "create", ret |-> "true", files |-> 0]
        /\ env = Unset
        /\ _prefix[h] = default_prefix
        /\ _path[h] \in dirs
        /\ parent_path(_path[h]) = paths_to_try(env)[2]

(***************************************************************************)
(* C15.  create() has looked up a path, found nothing there and is about   *)
(* to make the directory, and by then someone else has made it.  The step  *)
(* that follows raises nothing, does not return true, leaves path(),       *)
(* good() and the filesystem as they are, and uses up one attempt: the     *)
(* call goes on to draw a new name, or returns false if that was the last  *)
(* attempt in the last candidate.                                          *)
(***************************************************************************)
C15_LostRace ==
    [][ \A h \in Handles :
          (pc[h] = "create_make" /\ path_to_try[h] \in dirs /\ CreateStep(h)) =>
            /\ ~CreateReturns(h, "throw")
            /\ ~CreateReturns(h, "true")
            /\ ~terminated'
            /\ _good'[h] = _good[h]
            /\ _path'[h] = _path[h]
            /\ dirs' = dirs
            /\ entries' = entries
            /\ madeBy' = madeBy
            /\ \/ /\ pc'[h] = "create_try"
                  /\ path_to_try'[h] = ""
                  /\ \/ ipath'[h] = ipath[h] /\ itry'[h] = itry[h] + 1
                     \/ ipath'[h] = ipath[h] + 1 /\ itry'[h] = 0
               \/ /\ CreateReturns(h, "false")
                  /\ ipath[h] = Len(paths_to_try(env))
                  /\ itry[h] = MaxTries - 1
      ]_vars

\* a handle is about to make a directory at a path where, since it looked,
\* a directory has appeared that no handle of this process made
C15_Witness ==
    \E h \in Handles :
        /\ pc[h] = "create_make"
        /\ mutex = h
        /\ path_to_try[h] \in dirs
        /\ \A g \in Handles : <<path_to_try[h], g>> \notin madeBy

(***************************************************************************)
(* C16.  remove() on a valid handle whose path was found to be a           *)
(* directory returns what the removal of the directory came to: true if    *)
(* and only if that removal took the directory away, false if it did not.  *)
(***************************************************************************)
C16_RemoveOutcome ==
    [][ \A h \in Handles :
          (pc[h] = "remove_dir" /\ ~InRemove(h)') =>
            /\ RemoveReturns(h, "true") <=> (_path[h] \in dirs /\ _path[h] \notin dirs')
            /\ RemoveReturns(h, "false") <=> ~(_path[h] \in dirs /\ _path[h] \notin dirs')
      ]_vars

(***************************************************************************)
(* C17.  The destruction of a scoped_directory removes once: after the     *)
(* remove() of ~scoped_directory has returned, no step of the remove()     *)
(* that ~directory calls goes into the removal or changes the filesystem,  *)
(* whatever the other handles have created in between.                     *)
(***************************************************************************)
C17_RemovesOnce ==
    [][ \A h \in Handles :
          ( /\ kind[h] = "scoped_directory"
            /\ last[h].op = "remove"
            /\ pc[h] = "dtor_base" \/ (InRemove(h) /\ ctx[h] = "dtor_base")
            /\ pc'[h] # pc[h] ) =>
              /\ ~InRemove(h)'
              /\ dirs' = dirs
              /\ entries' = entries
              /\ madeBy' = madeBy
      ]_vars

(***************************************************************************)
(* C18.  The candidates a create() goes through are, in this order: the    *)
(* values of TEMP, TMP and TMPDIR, each only if the variable is set and    *)
(* not empty; the platform's temp roots (under SYSTEMROOT, under           *)
(* USERPROFILE, then the two fixed ones); and the working directory from   *)
(* CD as the last entry.  A variable set to the empty string adds no       *)
(* candidate.                                                              *)
(***************************************************************************)
\* what a variable adds if it is set and not empty
C18_IfSet(e, var, suffix) ==
    IF e[var] # << >> /\ e[var][1] # "" THEN << e[var][1] \o suffix >> ELSE << >>

C18_Claimed(e) ==
    C18_IfSet(e, "TEMP", "") \o C18_IfSet(e, "TMP", "") \o C18_IfSet(e, "TMPDIR", "")
    \o C18_IfSet(e, "SYSTEMROOT", "\\Temp")
    \o C18_IfSet(e, "USERPROFILE", "\\AppData\\Local\\Temp")
    \o << "c:\\temp", "c:\\tmp" >>
    \o C18_IfSet(e, "CD", "")

C18_CandidateList ==
    \A h \in Handles :
        InCreate(h) =>
            /\ paths_to_try(env) = C18_Claimed(env)
            /\ paths_to_try(env)[ipath[h]] # ""

(***************************************************************************)
(* C13.  Constructing a file or scoped_file handle where a candidate base  *)
(* path exists creates its file: after the constructor good() is true and  *)
(* path() names something that exists; and remove() on a file handle       *)
(* removes what is at path() and returns true if the handle is good and    *)
(* the path exists, and returns false and removes nothing otherwise.       *)
(***************************************************************************)
C13_FileCreated ==
    [][ \A h \in Handles :
          /\ ( /\ pc[h] = "unborn"
               /\ pc'[h] = "file_idle"
               /\ \E i \in 1..Len(paths_to_try(env)) : paths_to_try(env)[i] \in roots ) =>
                 /\ _good'[h]
                 /\ _path'[h] # ""
                 /\ _path'[h] \in dirs'
          /\ (pc[h] = "file_idle" /\ last'[h] # last[h]) =>
                 IF _good[h] /\ _path[h] \in dirs
                 THEN last'[h].ret = "true" /\ dirs' = dirs \ {_path[h]}
                 ELSE last'[h].ret = "false" /\ dirs' = dirs
      ]_vars

(***************************************************************************)
(* C19.  Every step of every operation of every handle (create() and       *)
(* remove() of a directory, remove() of a file, the destructors) is taken  *)
(* by a thread that holds the mutex or takes it in that step, never while  *)
(* another handle's thread holds it; a handle that is between its check    *)
(* and what follows it holds the mutex, so no two handles are there at the *)
(* same time.                                                              *)
(***************************************************************************)
\* this step is a step of an operation of handle h
C19_OpStep(h) ==
    /\ pc[h] # "unborn"
    /\ <<pc[h], last[h], ipath[h], itry[h], path_to_try[h], removed[h], _good[h], _path[h]>>'
         # <<pc[h], last[h], ipath[h], itry[h], path_to_try[h], removed[h], _good[h], _path[h]>>

C19_GuardHeld ==
    [][ /\ \A h \in Handles :
             C19_OpStep(h) =>
               /\ mutex \in {0, h}
               /\ (InCreate(h)' \/ InRemove(h)') => mutex' = h
        /\ \A h1 \in Handles : \A h2 \in Handles \ {h1} :
             ~( /\ (InCreate(h1) \/ InRemove(h1))'
                /\ (InCreate(h2) \/ InRemove(h2))' )
      ]_vars

(***************************************************************************)
(* C20.  The mutex causes no deadlock: under fair scheduling, a thread     *)
(* that is inside create() or remove(), inside the constructor of a        *)
(* scoped_directory, or between the two parts of a scoped handle's         *)
(* destruction, gets out of it: every call returns and every destruction   *)
(* completes.                                                              *)
(***************************************************************************)
\* the thread of h is inside a call, a constructor or a destructor
C20_Busy(h) ==
    pc[h] \in {"ctor", "create_try", "create_make", "remove_delete", "remove_dir",
               "dtor_base", "file_dtor"}

C20_NoDeadlock == \A h \in Handles : C20_Busy(h) ~> ~C20_Busy(h)

\* a scoped_directory is between ~scoped_directory and ~directory and has
\* to wait: another handle's thread holds the mutex
C20_Witness ==
    \E h \in Handles : \E g \in Handles \ {h} :
        /\ pc[h] = "dtor_base"
        /\ kind[h] = "scoped_directory"
        /\ last[h].op = "remove"
        /\ mutex = g

====
